---- MODULE Spec2Model ----
(***************************************************************************)
(* Payment lifecycle of the travel booking backend: one booking, the       *)
(* Payment rows of that booking (Payment.booking is a OneToOneField, so    *)
(* the table accepts one), the Chapa gateway's answers, the notification   *)
(* queue and the request handlers and the periodic task that read and      *)
(* write them.                                                             *)
(*                                                                         *)
(* A handler runs as a sequence of steps, one per database statement,      *)
(* gateway call or task enqueue, on its own in-memory model instances.     *)
(* Spec runs the handlers one after another; SpecConc lets two of them     *)
(* interleave, as two workers serving two requests do.                     *)
(*                                                                         *)
(* The source opens no transaction (no transaction.atomic, no              *)
(* select_for_update): every save() is committed on its own.               *)
(***************************************************************************)
EXTENDS Integers, FiniteSets, Sequences, TLC

VARIABLES stay, booking_status, payment, others, gateway, clock, outbox,
          frames, ops, calendar, task

vars == <<stay, booking_status, payment, others, gateway, clock, outbox,
          frames, ops, calendar, task>>

\* The rows, the gateway and the counters of the payment handlers.
payment_vars == <<stay, booking_status, payment, others, gateway, clock, outbox,
                  ops>>

\* Number of handler invocations explored.
MaxOps == 3

\* Greatest age, in hours, of a payment when a sweep runs.
MaxAge == 2

\* check_pending_payments, line 236: timedelta(hours=1)
one_hour == 1

\* Last day of the calendar a stay is booked in, and highest nightly rate.
\* Rates and amounts are DecimalFields with two decimal places: they are
\* counted in hundredths of the currency unit.
MaxDay == 3

MaxPrice == 2

\* The calendar of one property: its last day, and how many bookings are
\* made for it.
MaxDate == 4

MaxBookings == 2

\* Worker slots: two requests can be in flight at once.
Slots == {1, 2}

\* The booking's user, and some other authenticated user.
Users == {"owner", "other"}

\* Payment.PAYMENT_STATUS_CHOICES
PAYMENT_STATUS_CHOICES == {"pending", "success", "failed", "cancelled"}

\* Booking.STATUS_CHOICES
STATUS_CHOICES == {"pending", "confirmed", "canceled"}

\* The lowercased data.status of a gateway verify answer; "unknown" is any
\* other string (the empty string included).
RemoteStatus == {"success", "failed", "cancelled", "pending", "unknown"}

\* What a verify call yields: a status, or a RequestException (transport
\* error, timeout, non-2xx).
VerifyAnswer == RemoteStatus \cup {"unavailable"}

\* The gateway's side of the transaction: "none" until a transaction/initialize
\* call for the reference has succeeded, then "initialized", and "checkout"
\* once the user holds the checkout URL and can pay, fail or abandon.
\* GET transaction/verify/<tx_ref> is refused for a reference the gateway has
\* never seen, and reports nothing decisive before the user can act.
GatewayAnswers(g) ==
    IF g = "none" THEN {"unavailable"}
    ELSE IF g = "initialized" THEN {"unavailable", "pending", "unknown"}
    ELSE VerifyAnswer

\* The notification tasks followed through the worker.
TaskIds == {1, 2}

\* @shared_task(bind=True, max_retries=3), tasks.py lines 93 and 163.
max_retries == 3

\* A task not yet enqueued. kind is the notification's kind, state the task's
\* Celery state (PENDING, RETRY, SUCCESS when the function returned, FAILURE
\* when it raised), retries is request.retries, countdown the delay in
\* seconds before the scheduled retry, result what the function returned.
NoTask ==
    [kind |-> "none", state |-> "none", retries |-> 0, countdown |-> 0,
     result |-> "none"]

\* Payment row / instance. completed_at = 0 is NULL, transaction_id = 0 is
\* unset, checkout_url FALSE is NULL (chapa_reference and chapa_response are
\* set and saved with it).
NoPayment ==
    [exists |-> FALSE, status |-> "none", completed_at |-> 0,
     transaction_id |-> 0, amount |-> 0, checkout_url |-> FALSE]

\* Payment.objects.create(booking=..., amount=amount, status="pending"), with
\* Payment.save (models.py:337-341) generating the transaction_id.
NewPayment(txn, amount) ==
    [exists |-> TRUE, status |-> "pending", completed_at |-> 0,
     transaction_id |-> txn, amount |-> amount, checkout_url |-> FALSE]

NoMail == [success |-> 0, failed |-> 0, cancellation |-> 0]

NoPre == [payment |-> NoPayment, others |-> <<>>, booking |-> "none"]

\* The body of a callback request: the two fields a transaction reference is
\* looked for in, and a status field. "" is a field that is absent or empty;
\* "payment" is the payment's transaction_id, "unknown" one no payment has.
NoBody == [tx_ref |-> "", trx_ref |-> "", status |-> ""]

Bodies ==
    [tx_ref : {"", "unknown", "payment"}, trx_ref : {"", "unknown", "payment"},
     status : {"", "success", "failed"}]

\* The bodies explored: all of them when handlers run one at a time; under
\* interleaving one per reference (tx_ref only, no status field), since the
\* handler reads nothing else of the body.
CallbackBodies(exclusive) ==
    IF exclusive THEN Bodies
    ELSE {b \in Bodies : b.trx_ref = "" /\ b.status = ""}

\* check_pending_payments, lines 242-243: checked_count and updated_count.
NoReport == [checked_count |-> 0, updated_count |-> 0]

\* A handler's frame: which handler (kind), who asked (who) for which booking
\* or payment (ref), the request body of a callback (body), for a sweep the
\* hours since the payment was created (age) and its counts (report), where
\* it is (pc), the gateway's verify answer (remote),
\* the Payment instance the view holds (obj), the row it was read from or
\* inserted as (row: 0 is the booking's first row, i > 0 is others[i]), the
\* instance the service fetched (svc), the response status (code), the
\* message of a validation error (detail), and three
\* records kept for the properties: the rows as they were when the request
\* arrived (pre), the notifications this handler has enqueued (sent), the
\* enqueues the broker has refused it (refused) and the gateway calls it has
\* made (calls).
IdleFrame ==
    [kind |-> "idle", who |-> "none", ref |-> "none", body |-> NoBody,
     age |-> 0, pc |-> "idle", remote |-> "none", obj |-> NoPayment,
     row |-> 0, svc |-> NoPayment, pre |-> NoPre, sent |-> NoMail,
     calls |-> 0, refused |-> 0, report |-> NoReport, code |-> 0,
     detail |-> ""]

\* ---------------------------------------------------------------- models.py

\* A can_retry that lets any payment be retried.
can_retry_any(p) == TRUE

\* Payment.can_retry
can_retry(p) == p.status \in {"failed", "cancelled"}

\* Model.save(): every column of the row is written from the instance.
save(p) == [p EXCEPT !.exists = TRUE]

\* A payment table without the constraint: every insert is accepted.
unique_payment_per_booking_dropped(n) == TRUE

\* Payment.Meta.constraints, unique_payment_per_booking (with the OneToOneField
\* of line 258): an insert is accepted when the booking has n = 0 rows.
unique_payment_per_booking(n) == n = 0

\* Booking.total_nights. A date of 0 is None.
total_nights(b) ==
    IF b.check_in # 0 /\ b.check_out # 0 THEN b.check_out - b.check_in ELSE 0

\* A total that charges one night whatever the stay.
total_price_one_night(b) == b.pricepernight

\* Booking.total_price
total_price(b) == total_nights(b) * b.pricepernight

\* Payment.clean, line 347: Decimal("0.01"), in hundredths.
tolerance == 1

Abs(n) == IF n < 0 THEN 0 - n ELSE n

\* Payment.clean, lines 344-350: TRUE when no ValidationError is raised for a
\* payment of this amount on booking b.
clean(amount, b) == ~(Abs(amount - total_price(b)) > tolerance)

\* Model.save(update_fields=["status", "completed_at", "updated_at"])
save_status_completed(row, p) ==
    [row EXCEPT !.status = p.status, !.completed_at = p.completed_at]

\* Model.save(update_fields=["status", "updated_at"])
save_status(row, p) == [row EXCEPT !.status = p.status]

\* mark_as_success that stamps completed_at and keeps the instance's status.
mark_as_success_keeps_status(p, now) == [p EXCEPT !.completed_at = now]

\* Payment.mark_as_success, the instance part: status and completed_at.
mark_as_success(p, now) == [p EXCEPT !.status = "success", !.completed_at = now]

\* mark_as_success that saves the booking without confirming it.
mark_as_success_booking_unconfirmed == "pending"

\* Payment.mark_as_success, the booking part: the status written to the booking.
mark_as_success_booking == "confirmed"

\* Payment.mark_as_failed, the instance part.
mark_as_failed(p) == [p EXCEPT !.status = "failed"]

\* ------------------------------------------------------- chapa_service.py

\* ChapaPaymentService.verify_payment, lines 132-148: what the service sets on
\* the instance it fetched, for a gateway status.
verify_payment_set(p, status, now) ==
    IF status = "success"
    THEN [p EXCEPT !.status = "success", !.completed_at = now]
    ELSE [p EXCEPT !.status = "failed"]

\* What a transaction/initialize call comes to.
InitializeResult == {"accepted", "refused", "raised"}

\* views.py:464-491 and :877-889: where the view goes after initialize_payment.
initialize_payment_branch(result) ==
    IF result = "accepted" THEN "init_save"
    ELSE IF result = "refused" THEN "init_failed"
    ELSE "init_raised"

\* ---------------------------------------------------------- serializers.py

\* A validation that does not look at the booking's status.
validate_booking_id_any_status(found, status, p, requester) ==
    IF ~found THEN "Booking not found."
    ELSE IF p.exists /\ p.status \in {"pending", "success"}
    THEN "This booking already has a payment."
    ELSE IF requester # "owner" THEN "You can only pay for your own bookings."
    ELSE "valid"

\* InitiatePaymentSerializer.validate_booking_id: the first check that fails,
\* or "valid". found: Booking.objects.get finds the booking_id; p is
\* booking.payment.
validate_booking_id(found, status, p, requester) ==
    IF ~found THEN "Booking not found."
    ELSE IF p.exists /\ p.status \in {"pending", "success"}
    THEN "This booking already has a payment."
    ELSE IF status # "pending"
    THEN "Payment can only be initiated for pending bookings."
    ELSE IF requester # "owner" THEN "You can only pay for your own bookings."
    ELSE "valid"

\* ----------------------------------------------------------------- frames

Running(f) == f.pc \notin {"idle", "done"}

\* A handler may start in slot s, the first slot with no handler running.
\* exclusive: only when no handler is running at all.
Free(s, exclusive) ==
    /\ ops < MaxOps
    /\ ~Running(frames[s])
    /\ \A t \in Slots : t < s => Running(frames[t])
    /\ exclusive => \A t \in Slots : ~Running(frames[t])

\* The response of a finished handler stays until the next request starts.
Start(s, f) ==
    /\ frames' = [t \in Slots |->
                    IF t = s THEN f
                    ELSE IF Running(frames[t]) THEN frames[t] ELSE IdleFrame]
    /\ ops' = ops + 1

Fresh(kind, who, ref) ==
    [IdleFrame EXCEPT !.kind = kind, !.who = who, !.ref = ref,
                      !.pre = [payment |-> payment, others |-> others,
                               booking |-> booking_status]]

Finish(f, code) == [f EXCEPT !.pc = "done", !.code = code, !.svc = NoPayment]

Step(s, f) == frames' = [frames EXCEPT ![s] = f] /\ ops' = ops

At(s, pc) == frames[s].pc = pc

\* The rows of the booking in the payment table.
Rows == (IF payment.exists THEN <<payment>> ELSE <<>>) \o others

\* Row r of the booking, written from instance p.
WriteRow(r, p) ==
    IF r = 0 THEN payment' = p /\ others' = others
    ELSE payment' = payment /\ others' = [others EXCEPT ![r] = p]

\* Payment.objects.create(booking=booking, amount=amount, status="pending") by
\* the handler in slot s: the INSERT is accepted or raises IntegrityError,
\* which no handler catches (500). The new row's transaction_id is one no
\* earlier row has.
Payment_objects_create(s, amount) ==
    LET new == NewPayment(Len(Rows) + 1, amount)
    IN  IF ~unique_payment_per_booking(Len(Rows))
        THEN /\ Step(s, Finish(frames[s], 500))
             /\ UNCHANGED <<payment, others>>
        ELSE IF ~payment.exists
        THEN /\ Step(s, [frames[s] EXCEPT !.obj = new, !.row = 0,
                                          !.pc = "init_request"])
             /\ payment' = new
             /\ others' = others
        ELSE /\ Step(s, [frames[s] EXCEPT !.obj = new, !.row = Len(others) + 1,
                                          !.pc = "init_request"])
             /\ payment' = payment
             /\ others' = Append(others, new)

\* A booking made through BookingDetailSerializer: check_in < check_out
\* (Booking.clean), status pending, no payment yet.
Init ==
    /\ stay \in {[check_in |-> i, check_out |-> o, pricepernight |-> r] :
                   i \in 1..MaxDay, o \in 1..MaxDay, r \in 1..MaxPrice}
    /\ stay.check_in < stay.check_out
    /\ booking_status = "pending"
    /\ payment = NoPayment
    /\ others = <<>>
    /\ gateway = "none"
    /\ clock = 0
    /\ outbox = NoMail
    /\ frames = [s \in Slots |-> IdleFrame]
    /\ ops = 0
    /\ calendar = <<>>
    /\ task = [i \in TaskIds |-> NoTask]

\* The rows hold statuses of the models' choices, and timestamps the clock
\* has issued, for payments created by the views. booking_status "none": the
\* booking has been deleted.
TypeOK ==
    /\ booking_status \in STATUS_CHOICES \cup {"none"}
    /\ payment = NoPayment
         \/ /\ payment.exists
            /\ payment.status \in PAYMENT_STATUS_CHOICES
            /\ payment.completed_at \in 0..clock
            /\ payment.transaction_id = 1
            /\ payment.amount = total_price(stay)
    /\ others = <<>>
    /\ gateway \in {"none", "initialized", "checkout"}
    /\ ops \in 0..MaxOps
    /\ \A s \in Slots :
         frames[s].remote \in VerifyAnswer \cup InitializeResult \cup {"none"}

\* ------------------------------------------------------ handlers' branches

Goto(pc) == [pc |-> pc, code |-> 0]

Respond(code) == [pc |-> "done", code |-> code]

\* A view that takes a failed gateway call for a failed payment.
VerifyPaymentView_branch_timeout_is_failed(success, status) ==
    IF ~success \/ status = "failed" THEN Goto("failed_save")
    ELSE IF status = "success" THEN Goto("mark_save")
    ELSE Goto("view_save")

\* VerifyPaymentView.post, lines 559-607: where the view goes once
\* verify_payment has returned result["success"] = success with data.status.
VerifyPaymentView_branch(success, status) ==
    IF ~success THEN Respond(400)
    ELSE IF status = "success" THEN Goto("mark_save")
    ELSE IF status = "failed" THEN Goto("failed_save")
    ELSE Goto("view_save")

\* chapa_callback, lines 636-694. The save of line 650 writes chapa_response,
\* payment_method and chapa_reference only. Line 672 assigns to the read-only
\* property is_pending: AttributeError, caught at line 689.
chapa_callback_branch(success, status) ==
    IF ~success THEN Respond(400)
    ELSE IF status = "success" THEN Goto("mark_save")
    ELSE IF status \in {"failed", "cancelled"} THEN Goto("failed_save")
    ELSE IF status = "pending" THEN Respond(500)
    ELSE Respond(200)

\* A callback that takes the status from the request body when it has one.
callback_payment_status_from_body(verified, body) ==
    IF body.status # "" THEN body.status ELSE verified

\* chapa_callback, lines 643-644: payment_status is the status of the
\* gateway's verify answer; the request body is read for the reference only.
callback_payment_status(verified, body) == verified

\* chapa_callback, line 621: data.get("tx_ref") or data.get("trx_ref")
callback_tx_ref(body) == IF body.tx_ref # "" THEN body.tx_ref ELSE body.trx_ref

AfterService(f, success) ==
    IF f.kind = "verify" THEN VerifyPaymentView_branch(success, f.remote)
    ELSE chapa_callback_branch(success,
                               callback_payment_status(f.remote, f.body))

Continue(f, b) == [f EXCEPT !.pc = b.pc, !.code = b.code, !.svc = NoPayment]

\* ------------------------------------------ ChapaPaymentService.verify_payment

\* Lines 111-114 and 156-162: the GET to the gateway. A RequestException
\* returns success False before any row is read.
verify_payment_request(s) ==
    /\ At(s, "svc_request")
    /\ \E a \in GatewayAnswers(gateway) :
         LET f == [frames[s] EXCEPT !.remote = a, !.calls = @ + 1]
         IN  IF a = "unavailable"
             THEN Step(s, Continue(f, AfterService(f, FALSE)))
             ELSE Step(s, [f EXCEPT !.pc = "svc_find"])
    /\ UNCHANGED <<calendar, task, stay, others, gateway, booking_status, payment, clock, outbox>>

\* Lines 121-129: Payment.objects.filter(transaction_id=tx_ref).first()
verify_payment_find(s) ==
    /\ At(s, "svc_find")
    /\ LET f == frames[s]
       IN  IF ~payment.exists
           THEN Step(s, Continue(f, AfterService(f, FALSE)))
           ELSE Step(s, [f EXCEPT !.svc = payment, !.pc = "svc_save"])
    /\ UNCHANGED <<calendar, task, stay, others, gateway, booking_status, payment, clock, outbox>>

\* Lines 132-137 and 145-147: set the status on the fetched instance, save().
verify_payment_save(s) ==
    /\ At(s, "svc_save")
    /\ LET f == frames[s]
           now == clock + 1
           p == verify_payment_set(f.svc, f.remote, now)
       IN  /\ payment' = save(p)
           /\ IF f.remote = "success"
              THEN /\ clock' = now
                   /\ Step(s, [f EXCEPT !.svc = p, !.pc = "svc_mark_save"])
              ELSE /\ clock' = clock
                   /\ Step(s, Continue(f, AfterService(f, TRUE)))
    /\ UNCHANGED <<calendar, task, stay, others, gateway, booking_status, outbox>>

\* Line 141 -> Payment.mark_as_success, lines 379-382, on the service's instance.
verify_payment_mark_save(s) ==
    /\ At(s, "svc_mark_save")
    /\ LET f == frames[s]
           now == clock + 1
           p == mark_as_success(f.svc, now)
       IN  /\ payment' = save_status_completed(payment, p)
           /\ clock' = now
           /\ Step(s, [f EXCEPT !.svc = p, !.pc = "svc_mark_booking"])
    /\ UNCHANGED <<calendar, task, stay, others, gateway, booking_status, outbox>>

\* Line 141 -> Payment.mark_as_success, lines 385-386, then lines 150-154.
verify_payment_mark_booking(s) ==
    /\ At(s, "svc_mark_booking")
    /\ booking_status' = mark_as_success_booking
    /\ LET f == frames[s]
       IN  Step(s, Continue(f, AfterService(f, TRUE)))
    /\ UNCHANGED <<calendar, task, stay, others, gateway, payment, clock, outbox>>

\* ------------------------------------- the views' own writes and enqueues

\* payment.mark_as_success() of views.py:568 and :661, lines 379-382 of models.py.
mark_as_success_save(s) ==
    /\ At(s, "mark_save")
    /\ LET f == frames[s]
           now == clock + 1
           p == mark_as_success(f.obj, now)
       IN  /\ payment' = save_status_completed(payment, p)
           /\ clock' = now
           /\ Step(s, [f EXCEPT !.obj = p, !.pc = "mark_booking"])
    /\ UNCHANGED <<calendar, task, stay, others, gateway, booking_status, outbox>>

\* payment.mark_as_success(), lines 385-386 of models.py.
mark_as_success_booking_save(s) ==
    /\ At(s, "mark_booking")
    /\ booking_status' = mark_as_success_booking
    /\ Step(s, [frames[s] EXCEPT !.pc = "enqueue_success"])
    /\ UNCHANGED <<calendar, task, stay, others, gateway, payment, clock, outbox>>

\* send_payment_confirmation_email.delay(...), views.py:571 and :662, then
\* the 200 response.
send_payment_confirmation_email_delay(s) ==
    /\ At(s, "enqueue_success")
    /\ outbox' = [outbox EXCEPT !.success = @ + 1]
    /\ Step(s, Finish([frames[s] EXCEPT !.sent.success = @ + 1], 200))
    /\ UNCHANGED <<calendar, task, stay, others, gateway, booking_status, payment, clock>>

\* send_payment_confirmation_email.delay(...) raises because the broker cannot
\* be reached. VerifyPaymentView.post has no handler around line 571 and the
\* exception leaves the view (500); in chapa_callback line 662 is inside the
\* try of lines 619-694, whose except answers 500. The rows stay as saved.
send_payment_confirmation_email_delay_raises(s) ==
    /\ At(s, "enqueue_success")
    /\ Step(s, Finish([frames[s] EXCEPT !.refused = @ + 1], 500))
    /\ UNCHANGED <<calendar, task, stay, others, gateway, booking_status,
                   payment, clock, outbox>>

\* payment.mark_as_failed(...) of views.py:580 and :666, lines 391-392 of models.py.
mark_as_failed_save(s) ==
    /\ At(s, "failed_save")
    /\ LET f == frames[s]
           p == mark_as_failed(f.obj)
       IN  /\ payment' = save_status(payment, p)
           /\ Step(s, [f EXCEPT !.obj = p, !.pc = "enqueue_failed"])
    /\ UNCHANGED <<calendar, task, stay, others, gateway, booking_status, clock, outbox>>

\* send_payment_failed_email.delay(...), views.py:583 and :667, then the
\* 200 response.
send_payment_failed_email_delay(s) ==
    /\ At(s, "enqueue_failed")
    /\ outbox' = [outbox EXCEPT !.failed = @ + 1]
    /\ Step(s, Finish([frames[s] EXCEPT !.sent.failed = @ + 1], 200))
    /\ UNCHANGED <<calendar, task, stay, others, gateway, booking_status, payment, clock>>

\* send_payment_failed_email.delay(...) raises, views.py:583 and :667: as for
\* the confirmation email.
send_payment_failed_email_delay_raises(s) ==
    /\ At(s, "enqueue_failed")
    /\ Step(s, Finish([frames[s] EXCEPT !.refused = @ + 1], 500))
    /\ UNCHANGED <<calendar, task, stay, others, gateway, booking_status,
                   payment, clock, outbox>>

\* VerifyPaymentView.post, lines 586-596: payment.save() of the instance the
\* view fetched before it called the service.
VerifyPaymentView_save(s) ==
    /\ At(s, "view_save")
    /\ payment' = save(frames[s].obj)
    /\ Step(s, Finish(frames[s], 200))
    /\ UNCHANGED <<calendar, task, stay, others, gateway, booking_status, clock, outbox>>

\* --------------------------------------------------------------- requests

\* VerifyPaymentView.post, lines 539-557, with
\* VerifyPaymentSerializer.validate_transaction_id: the payment must exist and
\* its booking must be the requester's; the view then fetches its instance
\* and calls the service.
VerifyPaymentView_post(s, exclusive) ==
    /\ Free(s, exclusive)
    /\ \E requester \in Users :
         LET f == Fresh("verify", requester, "payment")
         IN  IF ~payment.exists \/ requester # "owner"
             THEN Start(s, Finish(f, 400))
             ELSE Start(s, [f EXCEPT !.obj = payment, !.pc = "svc_request"])
    /\ UNCHANGED <<calendar, task, stay, others, gateway, booking_status, payment, clock, outbox>>

\* chapa_callback, lines 619-634. The reference is missing from the body,
\* matches no payment, or is the payment's. get_object_or_404 raises Http404
\* inside the try block, whose except Exception answers 500.
chapa_callback(s, exclusive) ==
    /\ Free(s, exclusive)
    /\ \E body \in CallbackBodies(exclusive) :
         LET tx_ref == callback_tx_ref(body)
             ref == IF tx_ref = "" THEN "missing" ELSE tx_ref
             f == [Fresh("callback", "gateway", ref) EXCEPT !.body = body]
         IN  IF tx_ref = "" THEN Start(s, Finish(f, 400))
             ELSE IF tx_ref = "unknown" \/ ~payment.exists
             THEN Start(s, Finish(f, 500))
             ELSE Start(s, [f EXCEPT !.obj = payment, !.pc = "svc_request"])
    /\ UNCHANGED <<calendar, task, stay, others, gateway, booking_status, payment, clock, outbox>>

\* check_pending_payments, lines 225-270, run by the beat when the payment (if
\* any) is age hours old. tasks.py binds timezone to datetime.timezone (line
\* 2), which has no now(): line 236 raises AttributeError before any payment
\* is selected, and the task fails without a summary.
check_pending_payments(s, exclusive) ==
    /\ Free(s, exclusive)
    /\ \E age \in 0..MaxAge :
         Start(s, Finish([Fresh("sweep", "beat", "none") EXCEPT !.age = age],
                         500))
    /\ UNCHANGED <<calendar, task, stay, others, gateway, booking_status, payment, clock, outbox>>

\* app.conf.beat_schedule, celery.py lines 16-21: the beat sends the sweep
\* every hour for as long as the system runs, so these runs are not counted
\* in ops. The entry names the task core.tasks.check_pending_payments, a name
\* no module of the project registers; and a run of check_pending_payments
\* itself raises at tasks.py:236. Either way the run ends in failure with no
\* payment read. age: the hours since the payment was created.
beat_schedule(s, age) ==
    /\ \A t \in Slots : ~Running(frames[t])
    /\ \A t \in Slots : t >= s
    /\ frames' = [t \in Slots |->
                    IF t = s
                    THEN Finish([Fresh("sweep", "beat", "none") EXCEPT
                                   !.age = age], 500)
                    ELSE IdleFrame]
    /\ UNCHANGED <<calendar, task, stay, others, gateway, booking_status,
                   payment, clock, outbox, ops>>

\* CancelPaymentView.post, lines 925-945.
CancelPaymentView_post(s, exclusive) ==
    /\ Free(s, exclusive)
    /\ \E requester \in Users :
         LET f == Fresh("cancel", requester, "payment")
         IN  IF ~payment.exists THEN Start(s, Finish(f, 404))
             ELSE IF requester # "owner" THEN Start(s, Finish(f, 403))
             ELSE IF payment.status # "pending" THEN Start(s, Finish(f, 400))
             ELSE Start(s, [f EXCEPT !.obj = [payment EXCEPT !.status = "cancelled"],
                                     !.pc = "cancel_save"])
    /\ UNCHANGED <<calendar, task, stay, others, gateway, booking_status, payment, clock, outbox>>

\* A cancel that also cancels the booking.
CancelPaymentView_save_cancels_booking(s) ==
    /\ At(s, "cancel_save")
    /\ payment' = save(frames[s].obj)
    /\ booking_status' = "canceled"
    /\ Step(s, Finish(frames[s], 200))
    /\ UNCHANGED <<calendar, task, stay, others, gateway, clock, outbox>>

\* CancelPaymentView.post, lines 946-956: payment.save()
CancelPaymentView_save(s) ==
    /\ At(s, "cancel_save")
    /\ payment' = save(frames[s].obj)
    /\ Step(s, Finish(frames[s], 200))
    /\ UNCHANGED <<calendar, task, stay, others, gateway, booking_status, clock, outbox>>

\* A retry that does not verify ownership.
RetryPaymentView_post_any_user(s, exclusive) ==
    /\ Free(s, exclusive)
    /\ \E requester \in Users :
         LET f == Fresh("retry", requester, "payment")
         IN  IF ~payment.exists THEN Start(s, Finish(f, 404))
             ELSE IF ~can_retry(payment) THEN Start(s, Finish(f, 400))
             ELSE Start(s, [f EXCEPT !.obj = [payment EXCEPT !.status = "cancelled"],
                                     !.pc = "retry_save"])
    /\ UNCHANGED <<calendar, task, stay, others, gateway, booking_status, payment, clock, outbox>>

\* RetryPaymentView.post, lines 828-849.
RetryPaymentView_post(s, exclusive) ==
    /\ Free(s, exclusive)
    /\ \E requester \in Users :
         LET f == Fresh("retry", requester, "payment")
         IN  IF ~payment.exists THEN Start(s, Finish(f, 404))
             ELSE IF requester # "owner" THEN Start(s, Finish(f, 403))
             ELSE IF ~can_retry(payment) THEN Start(s, Finish(f, 400))
             ELSE Start(s, [f EXCEPT !.obj = [payment EXCEPT !.status = "cancelled"],
                                     !.pc = "retry_save"])
    /\ UNCHANGED <<calendar, task, stay, others, gateway, booking_status, payment, clock, outbox>>

\* RetryPaymentView.post, line 850: payment.save() of the old payment.
RetryPaymentView_save(s) ==
    /\ At(s, "retry_save")
    /\ payment' = save(frames[s].obj)
    /\ Step(s, [frames[s] EXCEPT !.pc = "retry_create"])
    /\ UNCHANGED <<calendar, task, stay, others, gateway, booking_status, clock, outbox>>

\* RetryPaymentView.post, lines 853-862: Payment.objects.create for the same
\* booking, with the old payment's amount. The booking's row is still there,
\* so the insert violates unique_payment_per_booking (models.py:258 and
\* :331): IntegrityError, 500.
RetryPaymentView_create(s) ==
    /\ At(s, "retry_create")
    /\ Payment_objects_create(s, frames[s].obj.amount)
    /\ UNCHANGED <<calendar, task, stay, gateway, booking_status, clock, outbox>>

\* InitiatePaymentView.create, lines 421-435, with
\* InitiatePaymentSerializer.validate_booking_id (serializers.py:405-435).
InitiatePaymentView_create(s, exclusive) ==
    /\ Free(s, exclusive)
    /\ \E requester \in Users, ref \in {"booking", "unknown"} :
         LET f == Fresh("initiate", requester, ref)
             detail ==
               validate_booking_id(ref = "booking" /\ booking_status # "none",
                                   booking_status, payment, requester)
         IN  IF detail # "valid"
             THEN Start(s, Finish([f EXCEPT !.detail = detail], 400))
             ELSE Start(s, [f EXCEPT !.pc = "init_create"])
    /\ UNCHANGED <<calendar, task, stay, others, gateway, booking_status, payment, clock, outbox>>

\* InitiatePaymentView.create, lines 438-446: Payment.objects.create with
\* amount=booking.total_price. A booking that already has a row (failed or
\* cancelled) cannot get a second: IntegrityError, 500.
InitiatePaymentView_insert(s) ==
    /\ At(s, "init_create")
    /\ Payment_objects_create(s, total_price(stay))
    /\ UNCHANGED <<calendar, task, stay, gateway, booking_status, clock, outbox>>

\* ChapaPaymentService.initialize_payment, lines 78-103, as called at
\* views.py:465 and :877. "accepted": a 2xx answer, success True. "refused":
\* a RequestException (transport error, timeout, non-2xx), success False.
\* "raised": a 2xx answer whose JSON body is not an object; data.get (line
\* 91) raises AttributeError, which the except clause of line 95 does not
\* catch.
initialize_payment(s) ==
    /\ At(s, "init_request")
    /\ \E result \in InitializeResult :
         /\ Step(s, [frames[s] EXCEPT !.calls = @ + 1, !.remote = result,
                                      !.pc = initialize_payment_branch(result)])
         /\ gateway' = IF result = "refused" THEN gateway ELSE "initialized"
    /\ UNCHANGED <<calendar, task, stay, others, booking_status, payment, clock, outbox>>

\* views.py:476-487: the exception of initialize_payment is answered 500 by
\* InitiatePaymentView.create; RetryPaymentView.post (line 877) does not
\* catch it, and the framework answers 500. The row is not written.
InitiatePaymentView_raised(s) ==
    /\ At(s, "init_raised")
    /\ Step(s, Finish(frames[s], 500))
    /\ UNCHANGED <<calendar, task, stay, others, gateway, booking_status, payment, clock, outbox>>

\* views.py:491-512 and :889-904: checkout_url, chapa_reference and
\* chapa_response are set on the instance, payment.save(), and the 201
\* response hands the checkout URL to the user.
InitiatePaymentView_save(s) ==
    /\ At(s, "init_save")
    /\ LET p == [frames[s].obj EXCEPT !.checkout_url = TRUE]
       IN  /\ WriteRow(frames[s].row, save(p))
           /\ Step(s, Finish([frames[s] EXCEPT !.obj = p], 201))
    /\ gateway' = "checkout"
    /\ UNCHANGED <<calendar, task, stay, booking_status, clock, outbox>>

\* views.py:513-526 and :905-912: payment.status = "failed", payment.save().
InitiatePaymentView_failed(s) ==
    /\ At(s, "init_failed")
    /\ LET p == [frames[s].obj EXCEPT !.status = "failed"]
       IN  /\ WriteRow(frames[s].row, save(p))
           /\ Step(s, Finish([frames[s] EXCEPT !.obj = p], 400))
    /\ UNCHANGED <<calendar, task, stay, gateway, booking_status, clock, outbox>>

\* A cancel that does not look at the booking's payment.
BookingViewSet_cancel_unguarded(s, exclusive) ==
    /\ Free(s, exclusive)
    /\ \E requester \in Users :
         LET f == Fresh("booking_cancel", requester, "booking")
         IN  IF requester # "owner" \/ booking_status = "none"
             THEN Start(s, Finish(f, 404))
             ELSE IF booking_status = "canceled" THEN Start(s, Finish(f, 400))
             ELSE Start(s, [f EXCEPT !.pc = "booking_save"])
    /\ UNCHANGED <<calendar, task, stay, others, gateway, booking_status, payment, clock, outbox>>

\* BookingViewSet.cancel, lines 211-242. get_queryset holds the requester's
\* bookings only: another user's request finds none (404).
BookingViewSet_cancel(s, exclusive) ==
    /\ Free(s, exclusive)
    /\ \E requester \in Users :
         LET f == Fresh("booking_cancel", requester, "booking")
         IN  IF requester # "owner" \/ booking_status = "none"
             THEN Start(s, Finish(f, 404))
             ELSE IF booking_status = "canceled" THEN Start(s, Finish(f, 400))
             ELSE IF payment.exists /\ payment.status = "success"
             THEN Start(s, Finish(f, 400))
             ELSE Start(s, [f EXCEPT !.pc = "booking_save"])
    /\ UNCHANGED <<calendar, task, stay, others, gateway, booking_status, payment, clock, outbox>>

\* BookingViewSet.cancel, lines 245-265: booking.save(), then the
\* cancellation email task is enqueued.
BookingViewSet_cancel_save(s) ==
    /\ At(s, "booking_save")
    /\ booking_status' = "canceled"
    /\ outbox' = [outbox EXCEPT !.cancellation = @ + 1]
    /\ Step(s, Finish([frames[s] EXCEPT !.sent.cancellation = @ + 1], 200))
    /\ UNCHANGED <<calendar, task, stay, others, gateway, payment, clock>>

\* BookingViewSet.cancel, lines 245-265, when the broker cannot be reached:
\* the exception of .delay is caught and logged (lines 249-257) and the
\* response is the normal one.
BookingViewSet_cancel_save_unqueued(s) ==
    /\ At(s, "booking_save")
    /\ booking_status' = "canceled"
    /\ Step(s, Finish([frames[s] EXCEPT !.refused = @ + 1], 200))
    /\ UNCHANGED <<calendar, task, stay, others, gateway, payment, clock,
                   outbox>>

\* BookingViewSet.destroy, lines 183-209: the owner's booking is deleted unless
\* its payment is success. Payment.booking is on_delete=CASCADE (models.py:
\* 258-263): perform_destroy deletes the booking's payment rows with it.
BookingViewSet_destroy(s, exclusive) ==
    /\ Free(s, exclusive)
    /\ \E requester \in Users :
         LET f == Fresh("booking_destroy", requester, "booking")
         IN  IF requester # "owner" \/ booking_status = "none"
             THEN /\ Start(s, Finish(f, 404))
                  /\ UNCHANGED <<booking_status, payment, others>>
             ELSE IF payment.exists /\ payment.status = "success"
             THEN /\ Start(s, Finish(f, 400))
                  /\ UNCHANGED <<booking_status, payment, others>>
             ELSE /\ Start(s, Finish(f, 204))
                  /\ booking_status' = "none"
                  /\ payment' = NoPayment
                  /\ others' = <<>>
    /\ UNCHANGED <<calendar, task, stay, gateway, clock, outbox>>

\* Payment.objects.create(booking=booking, amount=amount) called on the model
\* (a shell, a script, the test suite): Model.save runs no validation, and
\* Payment.save (lines 337-341) only generates the transaction_id before the
\* INSERT, so clean (lines 344-350) is never consulted. The INSERT raises
\* IntegrityError when the booking already has a payment.
Payment_create(s, exclusive) ==
    /\ Free(s, exclusive)
    /\ booking_status # "none"
    /\ \E amount \in 0..(MaxDay * MaxPrice) :
         LET f == Fresh("create", "shell", "booking")
         IN  IF unique_payment_per_booking(Len(Rows))
             THEN /\ Start(s, Finish(f, 201))
                  /\ payment' = NewPayment(Len(Rows) + 1, amount)
             ELSE /\ Start(s, Finish(f, 500))
                  /\ payment' = payment
    /\ UNCHANGED <<calendar, task, stay, others, gateway, booking_status,
                   clock, outbox>>

\* ------------------------------------------- bookings of one property

\* A Booking row of the property's calendar.
NewBooking(check_in, check_out, status) ==
    [check_in |-> check_in, check_out |-> check_out, status |-> status]

\* BookingDetailSerializer.validate, lines 218-248, for attrs that hold both
\* dates and the listing_id, against the property's bookings rows; instance is
\* the index of the booking being updated, 0 on creation. The queryset of
\* lines 229-234 selects the pending or confirmed bookings with
\* check_in < attrs.check_in and check_out > attrs.check_out.
validate(rows, check_in, check_out, instance) ==
    IF check_in >= check_out THEN "End date must be after start date."
    ELSE IF \E j \in 1..Len(rows) :
              /\ rows[j].status \in {"pending", "confirmed"}
              /\ rows[j].check_in < check_in
              /\ rows[j].check_out > check_out
              /\ j # instance
    THEN "Property is not available for the selected dates."
    ELSE "valid"

\* The response of a booking endpoint, kept in the slot's frame.
Answer(s, kind, code) ==
    /\ frames' = [frames EXCEPT ![s] = Finish(Fresh(kind, "owner", "booking"),
                                               code)]
    /\ UNCHANGED <<payment_vars, task>>

\* BookingViewSet.create, lines 131-161, with BookingDetailSerializer.create
\* (serializers.py:268-277): 400 when validate raises, else the row is
\* inserted with the dates and the status of the request.
BookingViewSet_create(s) ==
    /\ Free(s, TRUE)
    /\ Len(calendar) < MaxBookings
    /\ \E check_in \in 1..MaxDate, check_out \in 1..MaxDate,
          status \in STATUS_CHOICES :
         IF validate(calendar, check_in, check_out, 0) = "valid"
         THEN /\ calendar' = Append(calendar,
                                    NewBooking(check_in, check_out, status))
              /\ Answer(s, "booking_create", 201)
         ELSE /\ calendar' = calendar
              /\ Answer(s, "booking_create", 400)

\* BookingViewSet.update, lines 163-181, for a PUT by the booking's user (every
\* field is required, listing_id included): 400 when validate raises; else
\* ModelSerializer.update assigns the listing_id UUID to the foreign key
\* Booking.listing_id, which raises ValueError before save (500).
BookingViewSet_update(s) ==
    /\ Free(s, TRUE)
    /\ \E i \in 1..Len(calendar), check_in \in 1..MaxDate,
          check_out \in 1..MaxDate :
         IF validate(calendar, check_in, check_out, i) = "valid"
         THEN Answer(s, "booking_update", 500)
         ELSE Answer(s, "booking_update", 400)
    /\ calendar' = calendar

\* BookingViewSet.update with partial=True, for a PATCH by the booking's user
\* that carries no listing_id (validate skips lines 226-246): either the two
\* dates, checked for their order only, or the status, not checked at all.
BookingViewSet_partial_update(s) ==
    /\ Free(s, TRUE)
    /\ \E i \in 1..Len(calendar) :
         \/ \E check_in \in 1..MaxDate, check_out \in 1..MaxDate :
              IF check_in >= check_out
              THEN /\ calendar' = calendar
                   /\ Answer(s, "booking_patch", 400)
              ELSE /\ calendar' = [calendar EXCEPT ![i].check_in = check_in,
                                                   ![i].check_out = check_out]
                   /\ Answer(s, "booking_patch", 200)
         \/ \E status \in STATUS_CHOICES :
              /\ calendar' = [calendar EXCEPT ![i].status = status]
              /\ Answer(s, "booking_patch", 200)

\* ------------------------------------------------------ notification tasks

\* self.retry(exc=e, countdown=60 * (2**self.request.retries)), tasks.py lines
\* 155-159 and 217-221. Task.retry schedules the retry and raises Retry while
\* request.retries + 1 <= max_retries; past that, since exc is given, it
\* re-raises exc itself and not MaxRetriesExceededError, so the except clause
\* of line 157 (219) does not apply and the task function raises.
retry(t) ==
    IF t.retries + 1 > max_retries
    THEN [t EXCEPT !.state = "FAILURE", !.result = "raised"]
    ELSE [t EXCEPT !.state = "RETRY", !.retries = @ + 1,
                   !.countdown = 60 * (2 ^ t.retries), !.result = "none"]

\* A run of a task with retries: the email is sent; the payment is not found
\* (lines 148-151, 210-213) and the message is returned; or anything else is
\* raised (lines 153-159, 215-221).
retried_task(t, outcome) ==
    IF outcome = "sent"
    THEN [t EXCEPT !.state = "SUCCESS", !.countdown = 0, !.result = "sent"]
    ELSE IF outcome = "DoesNotExist"
    THEN [t EXCEPT !.state = "SUCCESS", !.countdown = 0, !.result = "error"]
    ELSE retry([t EXCEPT !.countdown = 0])

Runnable(t, kind) == t.kind = kind /\ t.state \in {"PENDING", "RETRY"}

\* <task>.delay(id): the broker takes the message.
delay(i) ==
    /\ task[i] = NoTask
    /\ \E kind \in {"success", "failed", "cancellation"} :
         task' = [task EXCEPT ![i] = [NoTask EXCEPT !.kind = kind,
                                                   !.state = "PENDING"]]
    /\ UNCHANGED <<payment_vars, frames, calendar>>

\* send_payment_confirmation_email, lines 93-160, run by a worker (the first
\* run, or a retry whose countdown has passed).
send_payment_confirmation_email(i) ==
    /\ Runnable(task[i], "success")
    /\ \E outcome \in {"sent", "DoesNotExist", "Exception"} :
         task' = [task EXCEPT ![i] = retried_task(task[i], outcome)]
    /\ UNCHANGED <<payment_vars, frames, calendar>>

\* send_payment_failed_email, lines 163-222.
send_payment_failed_email(i) ==
    /\ Runnable(task[i], "failed")
    /\ \E outcome \in {"sent", "DoesNotExist", "Exception"} :
         task' = [task EXCEPT ![i] = retried_task(task[i], outcome)]
    /\ UNCHANGED <<payment_vars, frames, calendar>>

\* send_booking_cancellation_email, lines 273-312: no retry; any exception is
\* logged and its text returned (lines 310-312).
send_booking_cancellation_email(i) ==
    /\ Runnable(task[i], "cancellation")
    /\ \E outcome \in {"sent", "Exception"} :
         task' = [task EXCEPT ![i] =
                    [@ EXCEPT !.state = "SUCCESS",
                              !.result = IF outcome = "sent" THEN "sent"
                                         ELSE "error"]]
    /\ UNCHANGED <<payment_vars, frames, calendar>>

\* ---------------------------------------------------------- specifications

\* A step of the handler in slot s.
HandlerStep(s) ==
    \/ verify_payment_request(s)
    \/ verify_payment_find(s)
    \/ verify_payment_save(s)
    \/ verify_payment_mark_save(s)
    \/ verify_payment_mark_booking(s)
    \/ mark_as_success_save(s)
    \/ mark_as_success_booking_save(s)
    \/ send_payment_confirmation_email_delay(s)
    \/ mark_as_failed_save(s)
    \/ send_payment_failed_email_delay(s)
    \/ VerifyPaymentView_save(s)
    \/ CancelPaymentView_save(s)
    \/ RetryPaymentView_save(s)
    \/ RetryPaymentView_create(s)
    \/ InitiatePaymentView_insert(s)
    \/ initialize_payment(s)
    \/ InitiatePaymentView_save(s)
    \/ InitiatePaymentView_failed(s)
    \/ InitiatePaymentView_raised(s)
    \/ BookingViewSet_cancel_save(s)

\* A request or a task run arrives.
Request(s, exclusive) ==
    \/ InitiatePaymentView_create(s, exclusive)
    \/ VerifyPaymentView_post(s, exclusive)
    \/ chapa_callback(s, exclusive)
    \/ check_pending_payments(s, exclusive)
    \/ CancelPaymentView_post(s, exclusive)
    \/ RetryPaymentView_post(s, exclusive)
    \/ BookingViewSet_cancel(s, exclusive)

\* One handler at a time. The deletion of the booking is followed here only:
\* the interleavings of NextConc are those of a booking that stays.
Next ==
    \E s \in Slots :
      Request(s, TRUE) \/ HandlerStep(s) \/ BookingViewSet_destroy(s, TRUE)

Spec == Init /\ [][Next]_vars

\* Handlers interleave.
NextConc == \E s \in Slots : Request(s, FALSE) \/ HandlerStep(s)

\* No handler's control flow reads the booking's dates or rate: the
\* interleavings are explored for one stay, the longest at the highest rate.
InitConc ==
    /\ Init
    /\ stay = [check_in |-> 1, check_out |-> MaxDay, pricepernight |-> MaxPrice]

SpecConc == InitConc /\ [][NextConc]_vars

\* One handler at a time, and payments created on the model as well as
\* through the views.
NextModel == Next \/ \E s \in Slots : Payment_create(s, TRUE)

SpecModel == Init /\ [][NextModel]_vars

\* One handler at a time, with a broker that may refuse any enqueue.
NextBroker ==
    \/ Next
    \/ \E s \in Slots :
         \/ send_payment_confirmation_email_delay_raises(s)
         \/ send_payment_failed_email_delay_raises(s)
         \/ BookingViewSet_cancel_save_unqueued(s)

SpecBroker == Init /\ [][NextBroker]_vars

\* The bookings made for one property, one request at a time.
NextCalendar ==
    \E s \in Slots :
      \/ BookingViewSet_create(s)
      \/ BookingViewSet_update(s)
      \/ BookingViewSet_partial_update(s)

SpecCalendar == InitConc /\ [][NextCalendar]_vars

\* The notification tasks, from the enqueue to their last run; the workers
\* run them in any order.
NextTasks ==
    \E i \in TaskIds :
      \/ delay(i)
      \/ send_payment_confirmation_email(i)
      \/ send_payment_failed_email(i)
      \/ send_booking_cancellation_email(i)

SpecTasks == InitConc /\ [][NextTasks]_vars

\* A sweep sent by the beat when the payment is past the staleness threshold.
StaleSweep == \E s \in Slots, age \in one_hour..MaxAge : beat_schedule(s, age)

\* Initiations, and the beat's sweeps at any age of the payment: no verify
\* request, no callback, no other user action.
NextSweep ==
    \/ \E s \in Slots :
         \/ InitiatePaymentView_create(s, TRUE)
         \/ InitiatePaymentView_insert(s)
         \/ initialize_payment(s)
         \/ InitiatePaymentView_raised(s)
         \/ InitiatePaymentView_save(s)
         \/ InitiatePaymentView_failed(s)
    \/ \E s \in Slots, age \in 0..MaxAge : beat_schedule(s, age)

\* The beat keeps sending the sweep: a sweep of the stale payment is never
\* put off for ever.
SpecSweep == Init /\ [][NextSweep]_vars /\ WF_vars(StaleSweep)

\* ------------------------------------------------------------------ claims

\* The handlers that reconcile a payment against the gateway.
ReconcileKinds == {"callback", "verify", "sweep"}

Finished(s) == frames[s].pc = "done"

\* Under Spec a finished frame holds the last handler that ran: frames[s].pre
\* is the persisted state it started from, and the variables are the state it
\* left.
Reconciled(s) == Finished(s) /\ frames[s].kind \in ReconcileKinds

Quiescent == \A s \in Slots : ~Running(frames[s])

\* C1: a reconcile (callback, verify endpoint, sweep) that starts from a
\* payment whose persisted status is success leaves it success, whatever the
\* gateway answers.
C1_SuccessIsMonotone ==
    \A s \in Slots :
      (Reconciled(s) /\ frames[s].pre.payment.status = "success")
        => payment.status = "success"

\* C2: a reconcile that gets success for a payment already success (the second
\* of two in succession) is no transition: it enqueues nothing and leaves the
\* payment row and the booking as they were.
C2_IdempotentVerify ==
    \A s \in Slots :
      (Reconciled(s) /\ frames[s].remote = "success"
                     /\ frames[s].pre.payment.status = "success")
        => /\ frames[s].sent = NoMail
           /\ payment = frames[s].pre.payment
           /\ booking_status = frames[s].pre.booking

\* C3: completed_at is written once: a payment in success has it set, and no
\* operation that starts with it set (verify, callback, sweep, cancel, retry)
\* leaves another value.
C3_CompletedAtWrittenOnce ==
    /\ Quiescent => (payment.status = "success" => payment.completed_at # 0)
    /\ \A s \in Slots :
         (Finished(s) /\ frames[s].pre.payment.completed_at # 0)
           => payment.completed_at = frames[s].pre.payment.completed_at

C5_FailureTransition ==
    \A s \in Slots :
      (Reconciled(s) /\ frames[s].remote \in {"failed", "cancelled"}
                     /\ frames[s].pre.payment.status = "pending")
        => /\ payment.status = "failed"
           /\ frames[s].sent = [NoMail EXCEPT !.failed = 1]
           /\ booking_status = frames[s].pre.booking

\* C6: a reconcile of a pending payment whose gateway answer is pending or an
\* unrecognized status leaves the payment pending and the booking unchanged,
\* enqueues nothing and ends without an error result.
C6_NonDecisiveIsNoOp ==
    \A s \in Slots :
      (Reconciled(s) /\ frames[s].remote \in {"pending", "unknown"}
                     /\ frames[s].pre.payment.status = "pending")
        => /\ payment.status = "pending"
           /\ booking_status = frames[s].pre.booking
           /\ frames[s].sent = NoMail
           /\ frames[s].code = 200

\* C7: a reconcile whose gateway call failed (transport error, timeout,
\* non-2xx) leaves the payment row and the booking exactly as they were and
\* enqueues nothing.
C7_UnavailableNeverMutates ==
    \A s \in Slots :
      (Reconciled(s) /\ frames[s].remote = "unavailable")
        => /\ payment = frames[s].pre.payment
           /\ booking_status = frames[s].pre.booking
           /\ frames[s].sent = NoMail

\* C7's case: the gateway was unreachable for a pending payment, and the
\* handler has answered.
C7_Witness ==
    \E s \in Slots :
      /\ Reconciled(s) /\ frames[s].remote = "unavailable"
      /\ frames[s].pre.payment.status = "pending"
      /\ frames[s].code = 400

\* C8: a reconcile that starts from a payment in failed or cancelled leaves
\* that status, and does not confirm the booking, whatever the gateway answers.
C8_FailedCancelledTerminal ==
    \A s \in Slots :
      (Reconciled(s) /\ frames[s].pre.payment.status \in {"failed", "cancelled"})
        => /\ payment.status = frames[s].pre.payment.status
           /\ booking_status = frames[s].pre.booking

\* C9: whenever no handler is mid-execution, the booking is confirmed if and
\* only if its payment's persisted status is success.
C9_PaymentBookingConsistent ==
    Quiescent => (booking_status = "confirmed" <=> payment.status = "success")

\* C10: a success notification is enqueued only while the payment's persisted
\* status is success and the booking's persisted status is confirmed.
C10_NoNotificationWithoutSuccess ==
    [][\A s \in Slots :
         (At(s, "enqueue_success") /\ outbox'.success = outbox.success + 1
                                   /\ frames'[s].pc = "done")
           => (payment.status = "success" /\ booking_status = "confirmed")]_vars

\* Slots s and t hold two reconciles that overlapped, each of which read the
\* payment as pending on entry and was answered success by the gateway.
BothReconciledSuccess(s, t) ==
    /\ s # t
    /\ Reconciled(s) /\ Reconciled(t)
    /\ frames[s].remote = "success" /\ frames[t].remote = "success"
    /\ frames[s].pre.payment.status = "pending"
    /\ frames[t].pre.payment.status = "pending"

\* C11: when two reconciles of the same pending payment interleave and the
\* gateway answers success to both, the persisted state once both have ended
\* is payment success and booking confirmed, and neither has ended in an
\* error.
C11_ConcurrentReconcileSafe ==
    \A s, t \in Slots :
      BothReconciledSuccess(s, t)
        => /\ payment.status = "success"
           /\ booking_status = "confirmed"
           /\ frames[s].code = 200 /\ frames[t].code = 200

\* C11's case: the verify endpoint and the callback have raced on a pending
\* payment with success from the gateway, and both have answered.
C11_Witness ==
    \E s, t \in Slots :
      /\ BothReconciledSuccess(s, t)
      /\ frames[s].kind = "verify" /\ frames[t].kind = "callback"
      /\ frames[s].sent.success = 1 /\ frames[t].sent.success = 1

\* C12: a write by a reconcile that read the payment as pending and got a
\* non-success answer (pending, unrecognized, failed), landing when the
\* persisted status is success, leaves the persisted status success.
C12_LostRaceIsBenign ==
    [][\A s \in Slots :
         (/\ frames[s].kind \in ReconcileKinds
          /\ Running(frames[s])
          /\ frames[s].remote \in {"pending", "unknown", "failed"}
          /\ frames[s].pre.payment.status = "pending"
          /\ payment.status = "success"
          /\ frames'[s] # frames[s])
           => payment'.status = "success"]_vars

\* The booking's payments that are pending or success.
ActivePayments ==
    {i \in 1..Len(Rows) : Rows[i].status \in {"pending", "success"}}

\* C13: in every reachable state, whatever initiate and retry requests have
\* run or are running (two concurrent initiations included), the booking has
\* at most one payment row whose status is pending or success.
C13_OneActivePaymentPerBooking == Cardinality(ActivePayments) <= 1

\* C13's case: two initiations for the booking both passed validation while it
\* had no payment; one inserted its row, the other's insert was refused.
C13_Witness ==
    \E s, t \in Slots :
      /\ s # t
      /\ frames[s].kind = "initiate" /\ frames[t].kind = "initiate"
      /\ frames[s].pre.payment = NoPayment /\ frames[t].pre.payment = NoPayment
      /\ frames[s].obj.exists
      /\ Finished(t) /\ frames[t].code = 500 /\ frames[t].calls = 0
      /\ payment.status = "pending"

\* The handler in slot s has ended, having been asked for by the booking's user.
FinishedFor(s, kind, who) ==
    Finished(s) /\ frames[s].kind = kind /\ frames[s].who = who

\* The handler in slot s left every payment row and the booking as it found
\* them, and made no gateway call.
NothingChanged(s) ==
    /\ payment = frames[s].pre.payment
    /\ others = frames[s].pre.others
    /\ booking_status = frames[s].pre.booking
    /\ frames[s].calls = 0

\* C14: a retry by the owner of a payment in failed or cancelled does not end
\* in a server error; it adds a second payment row for the booking, with a
\* transaction reference other than the old one's and the old amount, pending
\* when the gateway accepts it; and the old row keeps its status.
C14_RetryCreatesNewIdentity ==
    \A s \in Slots :
      (FinishedFor(s, "retry", "owner")
         /\ frames[s].pre.payment.status \in {"failed", "cancelled"})
        => /\ frames[s].code # 500
           /\ Len(others) = Len(frames[s].pre.others) + 1
           /\ others[Len(others)].transaction_id # payment.transaction_id
           /\ others[Len(others)].amount = payment.amount
           /\ frames[s].remote = "accepted"
                => others[Len(others)].status = "pending"
           /\ payment.status = frames[s].pre.payment.status

\* C15: an initiation for a booking that does not exist, is not pending,
\* already has a payment in pending or success, or is not the requester's, is
\* answered 400, creates no payment row and makes no gateway call.
C15_InitiationPreconditions ==
    \A s \in Slots :
      (Finished(s) /\ frames[s].kind = "initiate"
         /\ \/ frames[s].ref = "unknown"
            \/ frames[s].pre.booking # "pending"
            \/ frames[s].pre.payment.status \in {"pending", "success"}
            \/ frames[s].who # "owner")
        => /\ frames[s].code = 400
           /\ NothingChanged(s)

\* C15's case: the owner has asked to pay for a booking that is canceled
\* and has no payment, and was refused.
C15_Witness ==
    \E s \in Slots :
      /\ FinishedFor(s, "initiate", "owner")
      /\ frames[s].ref = "booking"
      /\ frames[s].pre.booking = "canceled"
      /\ frames[s].pre.payment = NoPayment
      /\ frames[s].code = 400

C17_InitiationGatewayFailure ==
    \A s \in Slots :
      (Finished(s) /\ frames[s].kind \in {"initiate", "retry"}
         /\ frames[s].remote \in {"refused", "raised"})
        => /\ Rows[Len(Rows)].status = "failed"
           /\ frames[s].code >= 400
           /\ frames[s].sent = NoMail
           /\ outbox = NoMail
           /\ booking_status = "pending"

\* C18: a cancel by the owner of a payment that is pending leaves it cancelled
\* (no other column changed), makes no gateway call, enqueues nothing and
\* leaves the booking's status as it was.
C18_CancelPayment ==
    \A s \in Slots :
      (FinishedFor(s, "cancel", "owner")
         /\ frames[s].pre.payment.status = "pending")
        => /\ frames[s].code = 200
           /\ payment = [frames[s].pre.payment EXCEPT !.status = "cancelled"]
           /\ others = frames[s].pre.others
           /\ frames[s].calls = 0
           /\ frames[s].sent = NoMail
           /\ booking_status = frames[s].pre.booking

\* C18's case: the owner has cancelled a pending payment whose checkout page
\* was open.
C18_Witness ==
    \E s \in Slots :
      /\ FinishedFor(s, "cancel", "owner")
      /\ frames[s].pre.payment.status = "pending"
      /\ frames[s].pre.payment.checkout_url
      /\ payment.status = "cancelled"

\* C19: a retry of a payment in pending or success, and a cancel of a payment
\* in success, failed or cancelled, are answered 400; no payment row is
\* created or modified, the booking is unchanged and no gateway call is made.
C19_InvalidStateUnchanged ==
    \A s \in Slots :
      (\/ FinishedFor(s, "retry", "owner")
            /\ frames[s].pre.payment.status \in {"pending", "success"}
       \/ FinishedFor(s, "cancel", "owner")
            /\ frames[s].pre.payment.status \in {"success", "failed", "cancelled"})
        => /\ frames[s].code = 400
           /\ NothingChanged(s)

\* C19's case: the owner has asked to retry a payment that is pending.
C19_Witness ==
    \E s \in Slots :
      /\ FinishedFor(s, "retry", "owner")
      /\ frames[s].pre.payment.status = "pending"
      /\ frames[s].code = 400

\* C20: initiate, verify, retry and cancel asked for by a user who does not
\* own the booking are answered with a client error (4xx); no payment row or
\* booking is created or modified and no gateway call is made.
C20_UnauthorizedUnchanged ==
    \A s \in Slots :
      (Finished(s) /\ frames[s].who = "other"
         /\ frames[s].kind \in {"initiate", "verify", "retry", "cancel"})
        => /\ frames[s].code \in 400..499
           /\ NothingChanged(s)

\* C20's case: another user has asked to retry the owner's failed payment.
C20_Witness ==
    \E s \in Slots :
      /\ FinishedFor(s, "retry", "other")
      /\ frames[s].pre.payment.status = "failed"
      /\ frames[s].code = 403

\* The reference a callback body carries: tx_ref, else trx_ref, else none.
BodyReference(b) ==
    IF b.tx_ref # "" THEN b.tx_ref
    ELSE IF b.trx_ref # "" THEN b.trx_ref
    ELSE "missing"

\* C21: a callback takes the reference from tx_ref or, if that is absent, from
\* trx_ref; it is answered 400 when neither field is there and 400 when the
\* reference matches no payment, and in both cases no payment row and no
\* booking is changed.
C21_WebhookReference ==
    \A s \in Slots :
      (Finished(s) /\ frames[s].kind = "callback")
        => /\ frames[s].ref = BodyReference(frames[s].body)
           /\ (\/ frames[s].ref \in {"missing", "unknown"}
               \/ frames[s].pre.payment = NoPayment)
                => (frames[s].code = 400 /\ NothingChanged(s))

\* C22: what a callback for the payment leaves (payment status, booking
\* status, notifications) is a function of the state it started from and of
\* the gateway's verify answer alone, whatever else its body holds; and a
\* callback that has not called the gateway has changed nothing.
C22_CallbackBodyNotTrusted ==
    \A s \in Slots :
      frames[s].kind = "callback"
        => /\ frames[s].calls = 0
                => (payment = frames[s].pre.payment
                    /\ booking_status = frames[s].pre.booking
                    /\ frames[s].sent = NoMail)
           /\ (Finished(s) /\ frames[s].calls > 0)
                => LET answer == frames[s].remote
                   IN  /\ payment.status
                            = IF answer = "unavailable"
                              THEN frames[s].pre.payment.status
                              ELSE IF answer = "success" THEN "success"
                              ELSE "failed"
                       /\ booking_status
                            = IF answer = "success" THEN "confirmed"
                              ELSE frames[s].pre.booking
                       /\ frames[s].sent
                            = IF answer = "success"
                              THEN [NoMail EXCEPT !.success = 1]
                              ELSE IF answer \in {"failed", "cancelled"}
                              THEN [NoMail EXCEPT !.failed = 1]
                              ELSE NoMail

\* C22's case: a callback whose body claims success for a pending payment,
\* while the gateway's verify answer is failed, has been answered.
C22_Witness ==
    \E s \in Slots :
      /\ Finished(s) /\ frames[s].kind = "callback"
      /\ frames[s].body.status = "success"
      /\ frames[s].remote = "failed"
      /\ frames[s].pre.payment.status = "pending"
      /\ payment.status = "failed"

\* The sweep in slot s ran when the payment was pending and at least an hour
\* old: the payment it has to select.
SweptStalePending(s) ==
    /\ Finished(s) /\ frames[s].kind = "sweep"
    /\ frames[s].pre.payment.status = "pending"
    /\ frames[s].age >= one_hour

\* C23: a sweep makes one gateway verify call for the payment when it is
\* pending and at least an hour old, and otherwise makes no gateway call and
\* leaves the payment as it is.
C23_SweepSelection ==
    \A s \in Slots :
      (Finished(s) /\ frames[s].kind = "sweep")
        => IF SweptStalePending(s)
           THEN frames[s].calls = 1
           ELSE frames[s].calls = 0 /\ payment = frames[s].pre.payment

\* C24: a sweep that selected the payment ends with a summary: one payment
\* examined, and one reported as changed exactly when its persisted status
\* differs after the run (none when the gateway was unreachable, the payment
\* then still pending).
C24_SweepCounts ==
    \A s \in Slots :
      SweptStalePending(s)
        => /\ frames[s].code = 200
           /\ frames[s].report.checked_count = 1
           /\ frames[s].report.updated_count
                = IF payment.status # frames[s].pre.payment.status THEN 1 ELSE 0
           /\ frames[s].remote = "unavailable" => payment.status = "pending"

\* C25: a cancel of a booking whose payment is success is refused and leaves
\* the booking's status as it was; otherwise the owner's cancel of a booking
\* that is pending or confirmed leaves it canceled.
C25_BookingCancellationGuard ==
    \A s \in Slots :
      (Finished(s) /\ frames[s].kind = "booking_cancel")
        => /\ frames[s].pre.payment.status = "success"
                => (frames[s].code \in 400..499
                    /\ booking_status = frames[s].pre.booking)
           /\ (frames[s].who = "owner"
                 /\ frames[s].pre.payment.status # "success"
                 /\ frames[s].pre.booking \in {"pending", "confirmed"})
                => (frames[s].code = 200 /\ booking_status = "canceled")

\* C25's case: the owner's cancel of a confirmed booking with a successful
\* payment has been refused.
C25_Witness ==
    \E s \in Slots :
      /\ FinishedFor(s, "booking_cancel", "owner")
      /\ frames[s].pre.payment.status = "success"
      /\ frames[s].pre.booking = "confirmed"
      /\ frames[s].code = 400

\* C26: a payment row, once created, is in the store in every later state,
\* whatever operation follows (the deletion of its booking included).
C26_PaymentsNeverDeleted ==
    [][payment.exists
         => (payment'.exists
             /\ payment'.transaction_id = payment.transaction_id)]_vars

\* C27: no stored payment's amount differs from its booking's computed total
\* by more than the tolerance, whichever way the payment was created (initiate,
\* retry, creation on the model).
C27_AmountMatchesTotal ==
    \A i \in 1..Len(Rows) : clean(Rows[i].amount, stay)

Active(b) == b.status \in {"pending", "confirmed"}

\* [check_in, check_out) ranges that share a night: partial overlap,
\* containment either way, equal ranges.
Overlap(a, b) == a.check_in < b.check_out /\ b.check_in < a.check_out

\* C28: no two bookings of the property are both pending or confirmed while
\* their [check_in, check_out) ranges overlap.
C28_NoOverlappingActiveBookings ==
    \A i \in 1..Len(calendar), j \in 1..Len(calendar) :
      (i < j /\ Active(calendar[i]) /\ Active(calendar[j]))
        => ~Overlap(calendar[i], calendar[j])

\* The one overlap the serializer's query does find: a creation strictly
\* inside an active booking is refused.
ContainedCreationRefused ==
    \A s \in Slots :
      (/\ frames[s].kind = "booking_create"
       /\ frames[s].code = 201
       /\ Len(calendar) = MaxBookings)
        => ~(/\ Active(calendar[1])
             /\ calendar[1].check_in < calendar[Len(calendar)].check_in
             /\ calendar[1].check_out > calendar[Len(calendar)].check_out)

\* The part of bounded retry the tasks keep: at most max_retries retries, the
\* n-th scheduled 60 * 2^(n-1) seconds after the failed run.
BoundedBackoff ==
    \A i \in TaskIds :
      /\ task[i].retries <= max_retries
      /\ task[i].state = "RETRY"
           => task[i].countdown = 60 * (2 ^ (task[i].retries - 1))
      /\ task[i].kind = "cancellation" => task[i].retries = 0

\* C29: a notification task whose send fails is retried at most 3 times, with
\* a delay that doubles from one retry to the next, and its last failed run
\* ends by returning a failure result, not by raising.
C29_BoundedRetryThenResult ==
    /\ BoundedBackoff
    /\ \A i \in TaskIds : task[i].state # "FAILURE"

\* A reconcile that saved a success or failed transition and was then
\* refused the enqueue of its notification.
EnqueueRefused(s) == Reconciled(s) /\ frames[s].refused > 0

\* The rows are as the transition left them.
TransitionKept(s) ==
    /\ payment.status = (IF frames[s].remote = "success" THEN "success"
                         ELSE "failed")
    /\ payment.status = "success" => booking_status = "confirmed"
    /\ payment.status = "failed" => booking_status = frames[s].pre.booking

\* What holds of C30: the refused enqueue undoes nothing.
TransitionKeptWhenRefused ==
    \A s \in Slots : EnqueueRefused(s) => TransitionKept(s)

\* C30: when the enqueue of the notification fails after a reconcile has
\* saved a success or failed transition, the reconcile still answers with its
\* normal result (200) and the payment and the booking stay as transitioned.
C30_EnqueueFailureNotReconcileFailure ==
    \A s \in Slots :
      EnqueueRefused(s) => (frames[s].code = 200 /\ TransitionKept(s))

\* C31: an initiation by the owner for a pending booking whose only payment is
\* failed or cancelled adds a payment row that is pending and has a
\* transaction reference of its own, and the old row stays as it was.
C31_NewAttemptAfterFailure ==
    \A s \in Slots :
      (/\ FinishedFor(s, "initiate", "owner")
       /\ frames[s].ref = "booking"
       /\ frames[s].pre.booking = "pending"
       /\ frames[s].pre.payment.status \in {"failed", "cancelled"}
       /\ frames[s].pre.others = <<>>)
        => /\ payment = frames[s].pre.payment
           /\ Len(others) = 1
           /\ others[1].transaction_id # payment.transaction_id
           /\ frames[s].remote = "accepted" => others[1].status = "pending"

\* The failure the preconditions of an initiation call for when checked in
\* the order: the booking exists, it is pending, it has no payment in pending
\* or success, the requester owns it.
FirstViolatedPrecondition(found, status, p, requester) ==
    IF ~found THEN "Booking not found."
    ELSE IF status # "pending"
    THEN "Payment can only be initiated for pending bookings."
    ELSE IF p.exists /\ p.status \in {"pending", "success"}
    THEN "This booking already has a payment."
    ELSE IF requester # "owner" THEN "You can only pay for your own bookings."
    ELSE "valid"

\* C33: an initiation that is refused reports the failure of the first
\* violated precondition in the order exists, pending, no payment in pending
\* or success, owner.
C33_PreconditionOrder ==
    \A s \in Slots :
      LET first == FirstViolatedPrecondition(
                     frames[s].ref = "booking" /\ frames[s].pre.booking # "none",
                     frames[s].pre.booking, frames[s].pre.payment,
                     frames[s].who)
      IN  (Finished(s) /\ frames[s].kind = "initiate" /\ first # "valid")
            => (frames[s].code = 400 /\ frames[s].detail = first)

\* The payment is pending at the gateway's checkout: the user can pay or
\* fail there, and the gateway then has a decisive answer for the reference.
PendingAtCheckout ==
    payment.exists /\ payment.status = "pending" /\ gateway = "checkout"

\* C32: with the sweep sent fairly and nothing else acting, a payment that
\* stays pending is eventually moved to success or failed by a sweep once the
\* gateway has a decisive answer for it.
C32_SweepLiveness ==
    PendingAtCheckout ~> (payment.status \in {"success", "failed"})

\* What the callback leaves for a payment that was in state pre when the
\* gateway answered answer (C22): the payment status, the booking status and
\* the notifications enqueued.
CallbackLeaves(pre, answer) ==
    [payment |-> IF answer = "success" THEN "success" ELSE "failed",
     booking |-> IF answer = "success" THEN "confirmed" ELSE pre.booking,
     sent    |-> IF answer = "success" THEN [NoMail EXCEPT !.success = 1]
                 ELSE IF answer \in {"failed", "cancelled"}
                 THEN [NoMail EXCEPT !.failed = 1]
                 ELSE NoMail]

\* C34: whichever call site reconciled the payment (callback, verify endpoint,
\* sweep), for every prior status and every status the gateway answered, the
\* payment status, the booking status and the notifications it leaves are
\* those the callback leaves.
C34_CallSitesAgree ==
    \A s \in Slots :
      (Reconciled(s) /\ frames[s].calls > 0 /\ frames[s].remote \in RemoteStatus)
        => [payment |-> payment.status, booking |-> booking_status,
            sent |-> frames[s].sent]
             = CallbackLeaves(frames[s].pre, frames[s].remote)

\* Slot s holds a cancellation of the payment by its owner and slot t a
\* reconcile answered success, both of which read the payment as pending, and
\* both have ended.
CancelRacedReconcile(s, t) ==
    /\ FinishedFor(s, "cancel", "owner")
    /\ frames[s].pre.payment.status = "pending"
    /\ Reconciled(t)
    /\ frames[t].remote = "success"
    /\ frames[t].pre.payment.status = "pending"

\* C35: however a cancellation of a pending payment and a reconcile answered
\* success interleave, they do not end with the payment cancelled and the
\* booking confirmed.
C35_CancelRacingReconcile ==
    \A s \in Slots, t \in Slots :
      CancelRacedReconcile(s, t)
        => ~(payment.status = "cancelled" /\ booking_status = "confirmed")

\* C36: a reconcile of the payment of a booking its user has canceled leaves
\* the booking canceled, whatever the gateway answers.
C36_CanceledBookingStaysCanceled ==
    \A s \in Slots :
      (Reconciled(s) /\ frames[s].pre.booking = "canceled")
        => booking_status = "canceled"

====
